---- MODULE Spec2Model ----
(***************************************************************************)
(* NBOS verification-and-orchestration pipeline: the Charter Gate          *)
(* (charter/charter.py, CharterLayer) and the Orchestrator                 *)
(* (synergy_engine/core.py, SynergyEngine) with the collaborators it       *)
(* calls.  Text is a sequence of one-character strings so that the         *)
(* substring tests of the principle checks are computed, not assumed.      *)
(* Floating-point quantities are exact fractions <<num, den>> in lowest    *)
(* terms; context numbers are held in tenths (0.8 is 8).  A timestamp is   *)
(* the reading of a logical clock that advances at every datetime.now().   *)
(***************************************************************************)
EXTENDS Integers, Sequences, FiniteSets, TLC

(* ------------------------------ bounds --------------------------------- *)
\* process() coroutines in one run
MaxCalls == 2
\* process() calls on a module after its construction (SpecConstruct)
ConstructCalls == 2
\* direct verify_output calls beside the process() calls (Spec)
MaxDirect == 1
\* direct verify_output calls on the Gate (SpecGate)
MaxVerify == 1
\* process() calls beside them (SpecGate)
GateCalls == 1
\* direct verify_output calls and process() calls among the readers (SpecAudit)
AuditVerify == 1
AuditCalls == 1
\* passing verifications in the drift specification (1 failure in 10 is reached)
MaxDriftChecks == 9
\* vetoed process() calls in the drift specification
DriftCalls == 1
\* verify_output calls in the specification of the five checks
CheckCalls == 1

(* ------------------------------- text ---------------------------------- *)
UpperToLower ==
  ("A" :> "a") @@ ("B" :> "b") @@ ("C" :> "c") @@ ("D" :> "d") @@ ("E" :> "e") @@ ("F" :> "f") @@ ("G" :> "g") @@ ("H" :> "h") @@ ("I" :> "i") @@ ("J" :> "j") @@ ("K" :> "k") @@ ("L" :> "l") @@ ("M" :> "m") @@ ("N" :> "n") @@ ("O" :> "o") @@ ("P" :> "p") @@ ("Q" :> "q") @@ ("R" :> "r") @@ ("S" :> "s") @@ ("T" :> "t") @@ ("U" :> "u") @@ ("V" :> "v") @@ ("W" :> "w") @@ ("X" :> "x") @@ ("Y" :> "y") @@ ("Z" :> "z")

\* str.lower() on one character
LowerChar(c) == IF c \in DOMAIN UpperToLower THEN UpperToLower[c] ELSE c

\* str.lower()
Lower(s) == [i \in 1..Len(s) |-> LowerChar(s[i])]

\* Python's `sub in s` on strings
Contains(sub, s) ==
  \E i \in 1..(Len(s) - Len(sub) + 1) :
     \A j \in 1..Len(sub) : s[i + j - 1] = sub[j]


deception_markers ==
  << <<"g","u","a","r","a","n","t","e","e","d">>,
     <<"d","e","f","i","n","i","t","e">>,
     <<"a","b","s","o","l","u","t","e","l","y"," ","c","e","r","t","a","i","n">>,
     <<"i","m","p","o","s","s","i","b","l","e">> >>
sensitive_keywords ==
  << <<"p","a","s","s","w","o","r","d">>,
     <<"s","s","n">>,
     <<"c","r","e","d","i","t"," ","c","a","r","d">>,
     <<"p","r","i","v","a","t","e"," ","m","e","d","i","c","a","l">> >>
protected_attributes ==
  << <<"r","a","c","e">>,
     <<"g","e","n","d","e","r">>,
     <<"r","e","l","i","g","i","o","n">>,
     <<"d","i","s","a","b","i","l","i","t","y">>,
     <<"a","g","e">> >>
discriminatory_phrases ==
  << <<"s","h","o","u","l","d"," ","n","o","t">>,
     <<"i","n","c","a","p","a","b","l","e">>,
     <<"u","n","f","i","t">>,
     <<"i","n","f","e","r","i","o","r">> >>
harmful_keywords ==
  << <<"k","i","l","l">>,
     <<"h","a","r","m">>,
     <<"v","i","o","l","e","n","c","e">>,
     <<"i","l","l","e","g","a","l">>,
     <<"e","x","p","l","o","i","t">>,
     <<"a","b","u","s","e">> >>


\* the texts of the candidates (tests/test_charter.py, script/initialize_system.py)
TXT_test_output == <<"T","h","i","s"," ","i","s"," ","a"," ","t","e","s","t"," ","o","u","t","p","u","t"," ","w","i","t","h"," ","c","o","n","f","i","d","e","n","c","e"," ","l","e","v","e","l"," ","0",".","8","5">>
TXT_overconfident == <<"T","h","i","s"," ","o","u","t","c","o","m","e"," ","i","s"," ","a","b","s","o","l","u","t","e","l","y"," ","g","u","a","r","a","n","t","e","e","d"," ","w","i","t","h"," ","c","e","r","t","a","i","n","t","y">>
TXT_pii == <<"P","a","t","i","e","n","t"," ","j","o","h","n",".","d","o","e","@","e","x","a","m","p","l","e",".","c","o","m"," ","h","a","s"," ","S","S","N"," ","1","2","3","-","4","5","-","6","7","8","9">>
TXT_discriminatory == <<"W","o","m","e","n"," ","s","h","o","u","l","d"," ","n","o","t"," ","a","p","p","l","y"," ","f","o","r"," ","t","h","i","s"," ","r","o","l","e"," ","d","u","e"," ","t","o"," ","i","n","f","e","r","i","o","r"," ","c","a","p","a","b","i","l","i","t","i","e","s">>
TXT_harmful == <<"H","e","r","e","'","s"," ","h","o","w"," ","t","o"," ","m","a","k","e"," ","a","n"," ","i","l","l","e","g","a","l"," ","s","u","b","s","t","a","n","c","e">>
TXT_hedged == <<"T","h","i","s"," ","m","i","g","h","t"," ","b","e"," ","h","a","r","m","f","u","l"," ","b","u","t"," ","I","'","m"," ","n","o","t"," ","s","u","r","e">>
\* further texts: an upper-case marker, a phrase with an attribute, an attribute alone
TXT_shouted == <<"G","U","A","R","A","N","T","E","E","D"," ","r","e","t","u","r","n","s">>
TXT_unfit_religion == <<"P","e","o","p","l","e"," ","o","f"," ","t","h","a","t"," ","r","e","l","i","g","i","o","n"," ","a","r","e"," ","u","n","f","i","t">>
TXT_attribute_only == <<"A","v","e","r","a","g","e"," ","a","g","e"," ","i","s"," ","4","0">>

Texts ==
  {TXT_test_output, TXT_overconfident, TXT_pii, TXT_discriminatory, TXT_harmful, TXT_hedged,
   TXT_shouted, TXT_unfit_religion, TXT_attribute_only}

Keywords ==
  UNION { {list[k] : k \in 1..Len(list)} :
          list \in {deception_markers, sensitive_keywords, protected_attributes,
                    discriminatory_phrases, harmful_keywords} }

\* the keywords that occur in the lower-cased text, computed once per text
Occurring == [t \in Texts |-> {k \in Keywords : Contains(k, Lower(t))}]

\* keyword in text.lower()
OccursIn(keyword, text) ==
  IF text \in Texts THEN keyword \in Occurring[text] ELSE Contains(keyword, Lower(text))

\* some element of the keyword list occurs in text.lower()
AnyIn(list, text) == \E k \in 1..Len(list) : OccursIn(list[k], text)

(* --------------------------- fractions --------------------------------- *)
RECURSIVE GCD(_, _)
GCD(a, b) == IF b = 0 THEN a ELSE GCD(b, a % b)

\* the float n/d, as a fraction in lowest terms (d > 0, n >= 0)
Frac(n, d) == LET g == GCD(n, d) IN <<n \div g, d \div g>>

FracGT(x, y) == x[1] * y[2] > y[1] * x[2]
FracLT(x, y) == x[1] * y[2] < y[1] * x[2]
FracSub(x, y) == Frac(x[1] * y[2] - y[1] * x[2], x[2] * y[2])
FracAdd(x, y) == Frac(x[1] * y[2] + y[1] * x[2], x[2] * y[2])
One == <<1, 1>>
Zero == <<0, 1>>

(* ------------------------- Python values ------------------------------- *)
\* A value of a context key: t is its type, v its number (a bool as 0/1,
\* a number in tenths, a string by an id with 0 the empty string), d the
\* items of a dict.
Absent == [t |-> "absent", v |-> 0, d |-> {}]
PyNone == [t |-> "none", v |-> 0, d |-> {}]
PyBool(b) == [t |-> "bool", v |-> IF b THEN 1 ELSE 0, d |-> {}]
PyNum(tenths) == [t |-> "num", v |-> tenths, d |-> {}]
PyStr(id) == [t |-> "str", v |-> id, d |-> {}]
PyDict(items) == [t |-> "dict", v |-> 0, d |-> items]

\* bool(x)
Truthy(x) ==
  CASE x.t = "bool" -> x.v = 1
    [] x.t = "num" -> x.v # 0
    [] x.t = "str" -> x.v # 0
    [] x.t = "dict" -> x.d # {}
    [] OTHER -> FALSE

CtxKeys == {"user_id", "requires_consent", "consent_given", "is_complex_decision",
            "uncertainty_level", "auto_escalate", "safety_discussion",
            "task_id", "demographics", "apply_dp", "sensitivity", "feature_importance"}

\* {} : the context every call falls back to
EmptyItems == [k \in CtxKeys |-> Absent]
EmptyContext == [ismap |-> TRUE, kv |-> EmptyItems]
\* a context that is a mapping with the given items
Mapping(kv) == [ismap |-> TRUE, kv |-> kv]
\* a truthy context that is no mapping (a non-empty list): .get raises
NotAMapping == [ismap |-> FALSE, kv |-> EmptyItems]

\* context.get(key, default) on a mapping
Get(context, key, default) ==
  IF context.kv[key].t = "absent" THEN default ELSE context.kv[key]

\* `context or {}`
OrEmpty(context) ==
  IF context.ismap /\ context.kv = EmptyItems THEN EmptyContext ELSE context

(* ---------------------------- candidates ------------------------------- *)
\* A candidate output: a str or an instance of a str subclass (text), a dict
\* (names = its keys) or another object; attrs = the instance attributes it
\* carries among those the checks probe.
StrOut(text) == [kind |-> "str", text |-> text, names |-> {}, attrs |-> {}]
StrObjOut(text, attrs) == [kind |-> "str", text |-> text, names |-> {}, attrs |-> attrs]
DictOut(keys) == [kind |-> "dict", text |-> <<>>, names |-> keys, attrs |-> {}]
ObjOut(attrs) == [kind |-> "obj", text |-> <<>>, names |-> {}, attrs |-> attrs]

\* hasattr(output, name): plain str and dict instances carry none of the probed names
HasAttr(output, name) == name \in output.attrs

(* ------------------------- principle checks ---------------------------- *)
\* Each check yields "True", "False", or "Raise" when the Python code raises.

\* variant: the wording is judged whatever the candidate exposes
check_honesty_wording(output, context) ==
  IF output.kind = "str" /\ AnyIn(deception_markers, output.text) THEN "False" ELSE "True"

check_honesty(output, context) ==
  IF HasAttr(output, "confidence") \/ HasAttr(output, "uncertainty") THEN "True"
  ELSE IF output.kind = "str" /\ AnyIn(deception_markers, output.text) THEN "False"
  ELSE "True"

check_dignity(output, context) ==
  IF output.kind = "str" /\ AnyIn(sensitive_keywords, output.text) THEN "False"
  ELSE IF ~context.ismap THEN "Raise"
  ELSE IF /\ Truthy(Get(context, "user_id", PyNone))
          /\ Truthy(Get(context, "requires_consent", PyNone))
          /\ ~Truthy(Get(context, "consent_given", PyBool(FALSE)))
       THEN "False"
  ELSE "True"

\* variant: a discriminatory phrase alone fails the check
check_fairness_phrase_alone(output, context) ==
  IF output.kind = "str" /\ AnyIn(discriminatory_phrases, output.text) THEN "False" ELSE "True"

check_fairness(output, context) ==
  IF /\ output.kind = "str"
     /\ AnyIn(discriminatory_phrases, output.text)
     /\ AnyIn(protected_attributes, output.text)
  THEN "False"
  ELSE "True"

\* variant: the keys of a dict are not looked at
check_transparency_attributes_only(output, context) ==
  IF HasAttr(output, "reasoning") \/ HasAttr(output, "explanation") THEN "True"
  ELSE IF ~context.ismap THEN "Raise"
  ELSE IF Truthy(Get(context, "is_complex_decision", PyBool(FALSE))) THEN "False"
  ELSE "True"

check_transparency(output, context) ==
  IF HasAttr(output, "reasoning") \/ HasAttr(output, "explanation") THEN "True"
  ELSE IF output.kind = "dict" /\ ("reasoning" \in output.names \/ "explanation" \in output.names)
       THEN "True"
  ELSE IF ~context.ismap THEN "Raise"
  ELSE IF Truthy(Get(context, "is_complex_decision", PyBool(FALSE))) THEN "False"
  ELSE "True"

\* x > 0.7 for a context value: numbers and bools compare, anything else raises
UncertaintyThresholdTenths == 7
GreaterThanThreshold(x) ==
  CASE x.t = "num" -> IF x.v > UncertaintyThresholdTenths THEN "True" ELSE "False"
    [] x.t = "bool" -> IF x.v * 10 > UncertaintyThresholdTenths THEN "True" ELSE "False"
    [] OTHER -> "Raise"

\* variant: high uncertainty under auto_escalate blocks the output
check_safety_blocking(output, context) ==
  LET harmful == output.kind = "str" /\ AnyIn(harmful_keywords, output.text)
  IN  IF harmful /\ ~context.ismap THEN "Raise"
      ELSE IF harmful /\ ~Truthy(Get(context, "safety_discussion", PyBool(FALSE))) THEN "False"
      ELSE IF ~context.ismap THEN "Raise"
      ELSE IF GreaterThanThreshold(Get(context, "uncertainty_level", PyNum(0))) = "Raise" THEN "Raise"
      ELSE IF /\ GreaterThanThreshold(Get(context, "uncertainty_level", PyNum(0))) = "True"
              /\ Truthy(Get(context, "auto_escalate", PyBool(TRUE)))
           THEN "False"
      ELSE "True"

check_safety(output, context) ==
  LET harmful == output.kind = "str" /\ AnyIn(harmful_keywords, output.text)
  IN  IF harmful /\ ~context.ismap THEN "Raise"
      ELSE IF harmful /\ ~Truthy(Get(context, "safety_discussion", PyBool(FALSE))) THEN "False"
      ELSE IF ~context.ismap THEN "Raise"
      ELSE IF GreaterThanThreshold(Get(context, "uncertainty_level", PyNum(0))) = "Raise" THEN "Raise"
      ELSE "True"

\* EthicalPrinciple values, in the insertion order of charter_rules
EthicalPrinciple == <<"no_deception", "human_dignity", "fairness", "transparency", "safety">>
PrincipleValues == {EthicalPrinciple[i] : i \in 1..Len(EthicalPrinciple)}

charter_rules(principle, output, context) ==
  CASE principle = "no_deception" -> check_honesty(output, context)
    [] principle = "human_dignity" -> check_dignity(output, context)
    [] principle = "fairness" -> check_fairness(output, context)
    [] principle = "transparency" -> check_transparency(output, context)
    [] principle = "safety" -> check_safety(output, context)

\* fail-open variant: a check that raised counts as passed
PrincipleResultFailOpen(outcome) == outcome # "False"

\* the value stored in principle_results for one check outcome
PrincipleResult(outcome) == outcome = "True"

\* variant that records no reason for a check that raised
ViolationOfSilentFault(principle, outcome) ==
  IF outcome = "False" THEN << <<"Violated", principle>> >> ELSE <<>>

\* the entry added to violations for one check outcome (<<>> when none)
ViolationOf(principle, outcome) ==
  CASE outcome = "True" -> <<>>
    [] outcome = "False" -> << <<"Violated", principle>> >>
    [] outcome = "Raise" -> << <<"Check failed", principle>> >>

RECURSIVE ViolationsFrom(_, _)
ViolationsFrom(i, outcomes) ==
  IF i > Len(EthicalPrinciple) THEN <<>>
  ELSE ViolationOf(EthicalPrinciple[i], outcomes[EthicalPrinciple[i]])
         \o ViolationsFrom(i + 1, outcomes)

\* variant: any(...) in place of all(...)
AnyPassed(principle_results) == \E p \in DOMAIN principle_results : principle_results[p]

\* all(principle_results.values())
AllPassed(principle_results) == \A p \in DOMAIN principle_results : principle_results[p]

\* variant: the confidence follows the aggregate, not the count
ConfidenceAllOrNothing(principle_results) ==
  IF \A p \in DOMAIN principle_results : principle_results[p] THEN One ELSE Zero

\* sum(principle_results.values()) / len(principle_results)
Confidence(principle_results) ==
  Frac(Cardinality({p \in DOMAIN principle_results : principle_results[p]}),
       Cardinality(DOMAIN principle_results))

\* OutputVerification(...) as verify_output fills it from the outcomes of the checks
OutputVerification(outcomes, now) ==
  LET principle_results == [p \in PrincipleValues |-> PrincipleResult(outcomes[p])]
  IN  [passed |-> AllPassed(principle_results),
       principle_results |-> principle_results,
       violations |-> ViolationsFrom(1, outcomes),
       timestamp |-> now,
       confidence |-> Confidence(principle_results)]

\* The OutputVerification built by verify_output(output, context) at time now.
Verification(output, context_in, now) ==
  OutputVerification([p \in PrincipleValues |-> charter_rules(p, output, OrEmpty(context_in))],
                     now)

(* ------------------------------ state ---------------------------------- *)
VARIABLES
  verification_log,       \* CharterLayer.verification_log
  audit_log,              \* BaseNeuralModule.audit_log of the SynergyEngine
  active_tasks,           \* SynergyEngine.active_tasks: task_id -> final_output
  system_state,           \* SynergyEngine.system_state
  bias_metrics,           \* BiasDetectionModule.bias_metrics
  privacy_budget_spent,   \* PrivacyPreservationModule.privacy_budget_spent
  privacy_log,            \* PrivacyPreservationModule.privacy_log
  explanation_log,        \* ExplainabilityModule.explanation_log
  explanations_generated, \* ExplainabilityModule.explanations_generated
  clock,                  \* the reading datetime.now() gives in the next step
  calls,                  \* the process() coroutines: position, arguments, outcome
  gate_args,              \* the arguments of the latest verify_output call
  gate_result,            \* what the latest verify_output call gave its caller
  drift_result,           \* what the latest detect_alignment_drift call returned
  status_result,          \* what the latest get_system_status call returned
  verify_calls,           \* number of verify_output calls made so far
  direct_calls,           \* how many of them were made directly on the Gate
  last_op,                \* the operation that took the latest step
  module                  \* the SynergyEngine object: config, attributes set, __init__'s error

vars == <<verification_log, audit_log, active_tasks, system_state, bias_metrics,
          privacy_budget_spent, privacy_log, explanation_log, explanations_generated,
          clock, calls, gate_args, gate_result, drift_result, status_result,
          verify_calls, direct_calls, last_op, module>>

\* the objects a process() call can change
Engine ==
  [verification_log |-> verification_log, audit_log |-> audit_log,
   active_tasks |-> active_tasks, system_state |-> system_state,
   bias_metrics |-> bias_metrics, privacy_budget_spent |-> privacy_budget_spent,
   privacy_log |-> privacy_log, explanation_log |-> explanation_log,
   explanations_generated |-> explanations_generated,
   gate_args |-> gate_args, gate_result |-> gate_result,
   verify_calls |-> verify_calls, stages |-> <<>>]

(* --------------------------- audit trail ------------------------------- *)
ModuleName == "synergy_engine_primary"

NoDetails == [principles_passed |-> <<>>, confidence |-> <<>>, error |-> <<>>]

\* the audit_entry that _audit(event, details) appends at time now
AuditEntry(event, task, details, now) ==
  [timestamp |-> now, module |-> ModuleName, event |-> event, task |-> task,
   details |-> details]

\* BaseNeuralModule._audit: config.audit_enabled holds for every constructed module
Audit(log, event, task, details, now) == Append(log, AuditEntry(event, task, details, now))

(* ------------------------------ errors --------------------------------- *)
\* an exception: stage is the stage of process() its traceback starts in, which
\* str(e) does not show
Exc(stage, type, msg) == [stage |-> stage, type |-> type, msg |-> msg, violations |-> <<>>]

\* CharterViolationError(f"Output violates charter: {violations}")
CharterViolationError(violations) ==
  [stage |-> "verify", type |-> "CharterViolationError", msg |-> "Output violates charter",
   violations |-> violations]

(* ----------------------- CharterLayer.verify_output -------------------- *)
\* variant: the history is rebuilt from the new record alone
LoggedLatestOnly(eng, output, context, verification) ==
  [eng EXCEPT !.verification_log = <<verification>>,
              !.gate_args = <<[output |-> output, context |-> context]>>,
              !.verify_calls = @ + 1,
              !.gate_result =
                 IF ~verification.passed
                 THEN [outcome |-> "raised", record |-> <<>>,
                       error |-> <<CharterViolationError(verification.violations)>>]
                 ELSE [outcome |-> "returned", record |-> <<verification>>, error |-> <<>>]]

\* verify_output from line 82 on: the record is appended, then returned or vetoed
Logged(eng, output, context, verification) ==
  [eng EXCEPT !.verification_log = Append(@, verification),
              !.gate_args = <<[output |-> output, context |-> context]>>,
              !.verify_calls = @ + 1,
              !.gate_result =
                 IF ~verification.passed
                 THEN [outcome |-> "raised", record |-> <<>>,
                       error |-> <<CharterViolationError(verification.violations)>>]
                 ELSE [outcome |-> "returned", record |-> <<verification>>, error |-> <<>>]]

\* variant: a vetoed output is raised before the record is appended
verify_output_veto_unlogged(eng, output, context, now) ==
  LET verification == Verification(output, context, now)
      called == [eng EXCEPT !.gate_args = <<[output |-> output, context |-> context]>>,
                            !.verify_calls = @ + 1]
  IN  IF ~verification.passed
      THEN [called EXCEPT !.gate_result =
              [outcome |-> "raised", record |-> <<>>,
               error |-> <<CharterViolationError(verification.violations)>>]]
      ELSE [called EXCEPT !.verification_log = Append(@, verification),
                          !.gate_result =
              [outcome |-> "returned", record |-> <<verification>>, error |-> <<>>]]

\* variant: the record is returned whatever its aggregate
verify_output_never_raises(eng, output, context, now) ==
  LET verification == Verification(output, context, now)
  IN  [eng EXCEPT !.verification_log = Append(@, verification),
                  !.gate_args = <<[output |-> output, context |-> context]>>,
                  !.verify_calls = @ + 1,
                  !.gate_result =
                    [outcome |-> "returned", record |-> <<verification>>, error |-> <<>>]]

\* The Gate after verify_output(output, context): the record is appended, and the
\* caller gets the record back or the veto.
verify_output(eng, output, context, now) ==
  Logged(eng, output, context, Verification(output, context, now))

\* variant: the log itself is handed out
get_verification_history_alias(log) == [list |-> log, shared |-> TRUE]

\* CharterLayer.get_verification_history: a new list with the same records;
\* shared tells whether the caller's list is the log itself
get_verification_history(log) == [list |-> log, shared |-> FALSE]

\* BaseNeuralModule.get_audit_trail
get_audit_trail(log) == [list |-> log, shared |-> FALSE]

(* ------------------ PrivacyPreservationModule -------------------------- *)
\* re.sub over the four PII patterns, on a text held as a sequence of tokens
SanitizeToken(tok) ==
  CASE tok = "email" -> "[EMAIL_HASH]"
    [] tok = "phone" -> "[PHONE_MASKED]"
    [] tok = "ssn" -> "[SSN_MASKED]"
    [] tok = "card" -> "[CARD_MASKED]"
    [] OTHER -> tok

sanitize_string(toks) == [i \in 1..Len(toks) |-> SanitizeToken(toks[i])]

\* input_data: a str (toks), a dict (items: a sequence of values, each a number f
\* or a str toks), any other object, or an object whose dict protocol raises
StrIn(toks) == [kind |-> "str", toks |-> toks, items |-> <<>>]
NumVal(f) == [t |-> "num", f |-> f, toks |-> <<>>]
StrVal(toks) == [t |-> "str", f |-> Zero, toks |-> toks]
DictIn(items) == [kind |-> "dict", toks |-> <<>>, items |-> items]
OtherIn == [kind |-> "other", toks |-> <<>>, items |-> <<>>]
FaultyIn == [kind |-> "faulty", toks |-> <<>>, items |-> <<>>]
\* an object that is no str and no dict and whose get() raises
FaultyGet == [kind |-> "faulty_get", toks |-> <<>>, items |-> <<>>]

sanitize_input(data) ==
  CASE data.kind = "str" -> [data EXCEPT !.toks = sanitize_string(@)]
    [] data.kind = "dict" ->
         [data EXCEPT !.items = [i \in 1..Len(data.items) |->
             IF data.items[i].t = "str"
             THEN [data.items[i] EXCEPT !.toks = sanitize_string(@)]
             ELSE data.items[i]]]
    [] OTHER -> data

\* sanitize_input raises on an object whose items() raises
sanitize_raises(data) == data.kind = "faulty"

epsilon == One

\* sensitivity / self.epsilon is defined for numbers only
cost_raises(sensitivity) == sensitivity.t \notin {"num", "bool"}

privacy_cost(sensitivity) ==
  IF sensitivity.t = "bool" THEN Frac(sensitivity.v * epsilon[2], epsilon[1])
  ELSE Frac(sensitivity.v * epsilon[2], 10 * epsilon[1])

\* variant: a call that would overdraw the budget is skipped
add_differential_privacy_noise_capped(eng, statistic, sensitivity, noise, now) ==
  IF FracGT(FracAdd(eng.privacy_budget_spent, privacy_cost(sensitivity)), One)
  THEN [eng |-> eng, value |-> statistic]
  ELSE [eng |-> [eng EXCEPT !.privacy_budget_spent =
                               FracAdd(@, privacy_cost(sensitivity)),
                            !.privacy_log = Append(@,
                               [timestamp |-> now, operation |-> "differential_privacy",
                                sensitivity |-> sensitivity,
                                epsilon_cost |-> privacy_cost(sensitivity),
                                total_spent |-> FracAdd(eng.privacy_budget_spent,
                                                       privacy_cost(sensitivity))])],
        value |-> FracAdd(statistic, noise)]

\* the module after add_differential_privacy_noise(statistic, sensitivity), and
\* the noisy statistic it returns; noise is the Laplace draw
add_differential_privacy_noise(eng, statistic, sensitivity, noise, now) ==
  LET cost == privacy_cost(sensitivity)
      spent == FracAdd(eng.privacy_budget_spent, cost)
  IN  [eng |-> [eng EXCEPT !.privacy_budget_spent = spent,
                           !.privacy_log = Append(@,
                              [timestamp |-> now, operation |-> "differential_privacy",
                               sensitivity |-> sensitivity, epsilon_cost |-> cost,
                               total_spent |-> spent])],
       value |-> FracAdd(statistic, noise)]

(* ------------------------ BiasDetectionModule -------------------------- *)
bias_protected_attributes == <<"race", "gender", "age_group", "disability_status", "religion">>

BiasThreshold == <<4, 5>>
MinorityDisparity == <<3, 4>>
HighScore == <<7, 10>>

\* `protected_attr not in demographics` raises unless demographics is a container
analyze_raises(demographics) == demographics.t \notin {"dict", "str"}

HasKey(dict, key) == \E it \in dict.d : it[1] = key
ValueOf(dict, key) == (CHOOSE it \in dict.d : it[1] = key)[2]

\* output: scored tells a dict with a 'score' key, score its value
check_disparate_impact(output, attribute, demographics, now) ==
  LET disparity_ratio ==
        IF /\ output.scored
           /\ HasKey(demographics, attribute)
           /\ ValueOf(demographics, attribute) = "minority"
           /\ FracGT(output.score, HighScore)
        THEN MinorityDisparity ELSE One
  IN  [bias_type |-> "measurement", protected_attribute |-> attribute,
       disparity_ratio |-> disparity_ratio, threshold |-> BiasThreshold,
       violates_threshold |-> FracLT(disparity_ratio, BiasThreshold),
       timestamp |-> now]

RECURSIVE DetectedFrom(_, _, _, _)
DetectedFrom(i, output, demographics, now) ==
  IF i > Len(bias_protected_attributes) THEN <<>>
  ELSE (IF demographics.t = "dict" /\ HasKey(demographics, bias_protected_attributes[i])
        THEN <<check_disparate_impact(output, bias_protected_attributes[i], demographics, now)>>
        ELSE <<>>)
       \o DetectedFrom(i + 1, output, demographics, now)

\* the list analyze_output returns (and extends bias_metrics with)
analyze_output(output, demographics, now) == DetectedFrom(1, output, demographics, now)

(* ------------------------ ExplainabilityModule ------------------------- *)
Abs(x) == IF x < 0 THEN -x ELSE x

\* the exception of an explanation that fails: the input's own when its get() is
\* what raises
explain_fault(input_features) ==
  IF input_features.kind = "faulty_get"
  THEN Exc("explain", "RuntimeError", "boom")
  ELSE Exc("explain", "AttributeError", "object has no attribute")

\* feature_importance.items() needs a dict
explain_raises(input_features, feature_importance) ==
  \/ feature_importance.t # "dict"
  \/ feature_importance.d # {} /\ input_features.kind # "dict"

\* sorted by |importance|, largest first, the first three
top_features(feature_importance) ==
  {x \in feature_importance.d :
     Cardinality({y \in feature_importance.d : Abs(y[2]) > Abs(x[2])}) < 3}

\* min(1.0, max(0.5, len(top_features) / 5))
ExplanationConfidence(n) ==
  LET raw == Frac(n, 5)
      low == IF FracLT(raw, <<1, 2>>) THEN <<1, 2>> ELSE raw
  IN  IF FracGT(low, One) THEN One ELSE low

generate_explanation(eng, prediction, input_features, feature_importance, now) ==
  LET top == top_features(feature_importance)
      result == [prediction |-> prediction, reasoning |-> Cardinality(top),
                 top_factors |-> top,
                 confidence |-> ExplanationConfidence(Cardinality(top)),
                 timestamp |-> now]
  IN  [eng |-> [eng EXCEPT !.explanation_log = Append(@, result),
                           !.explanations_generated = @ + 1],
       value |-> result]

(* --------------------------- SynergyEngine ----------------------------- *)
RECURSIVE SumScores(_, _)
SumScores(items, i) ==
  IF i > Len(items) THEN Zero
  ELSE FracAdd(IF items[i].t = "num" THEN items[i].f ELSE <<1, 2>>, SumScores(items, i + 1))

\* SynergyEngine._process_through_drs, after its sleep
process_through_drs(input_data) ==
  IF input_data.kind = "dict" /\ Len(input_data.items) > 0
  THEN LET s == SumScores(input_data.items, 1)
       IN  Frac(s[1], s[2] * Len(input_data.items))
  ELSE <<1, 2>>

\* f"task_{datetime.now().timestamp()}"
TaskName(now) == [t |-> "task_", v |-> now, d |-> {}]

\* str(e): the message, without the exception's type
StrOf(e) == [msg |-> e.msg, violations |-> e.violations]

ErrorDetails(e) == [NoDetails EXCEPT !.error = <<StrOf(e)>>]

\* what a finished process() call leaves: the engine, and the caller's outcome
Returned(eng, value) == [eng |-> eng, outcome |-> "returned", value |-> <<value>>, error |-> <<>>]
Raised(eng, outcome, e) == [eng |-> eng, outcome |-> outcome, value |-> <<>>, error |-> <<e>>]

\* variant: the completion time is stamped on the veto path too
OnCharterViolationStamps(eng, e, now) ==
  Raised([eng EXCEPT !.audit_log =
            Audit(@, "Output blocked by CharterLayer", <<>>, ErrorDetails(e), now),
                     !.system_state = [@ EXCEPT !.last_synthesis = <<now>>]],
         "veto", e)

\* except CharterViolationError: audit, re-raise
OnCharterViolation(eng, e, now) ==
  Raised([eng EXCEPT !.audit_log =
            Audit(@, "Output blocked by CharterLayer", <<>>, ErrorDetails(e), now)],
         "veto", e)

\* variant: the fault is re-raised without an audit entry
OnExceptionUnaudited(eng, e, now) == Raised(eng, "error", e)

\* except Exception: audit, re-raise
OnException(eng, e, now) ==
  Raised([eng EXCEPT !.audit_log = Audit(@, "Processing error", <<>>, ErrorDetails(e), now)],
         "error", e)

\* the call under way has run one more stage of process(): the stage, the score
\* it was handed (<<>> when none) and the input it was handed
StageRun(stage, score, input) == [stage |-> stage, score |-> score, input |-> input]
Staged(eng, stage, score, input) ==
  [eng EXCEPT !.stages = Append(@, StageRun(stage, score, input))]

\* variant: the package carries the prediction and the task_id only
PackageKeysBare == {"prediction", "task_id"}

\* the keys of output_package
PackageKeys == {"prediction", "explanation", "confidence", "task_id"}

\* variant: a task_id already in the task map keeps its first package
StoreVerifiedFirstWins(eng, task_id, prediction, explanation, biases, now) ==
  LET charter_result == eng.gate_result.record[1]
      final_output ==
        [prediction |-> prediction, explanation |-> explanation,
         confidence |-> explanation.confidence, task_id |-> task_id,
         charter_verified |-> TRUE, timestamp |-> now,
         biases_detected |-> Len(biases), explanation_detail |-> explanation]
      audited == Audit(eng.audit_log, "Output passed CharterLayer verification", <<>>,
                       [NoDetails EXCEPT
                          !.principles_passed = <<charter_result.principle_results>>,
                          !.confidence = <<charter_result.confidence>>], now)
  IN  Returned([eng EXCEPT
                  !.audit_log = audited,
                  !.active_tasks = [k \in DOMAIN @ \cup {task_id} |->
                                      IF k \in DOMAIN @ THEN @[k] ELSE final_output],
                  !.system_state = [@ EXCEPT !.last_synthesis = <<now>>],
                  !.stages = Append(@, StageRun("store", prediction, OtherIn))],
               final_output)

\* steps 7 and 8 of process: the pass is audited, the final output stored
StoreVerified(eng, task_id, prediction, explanation, biases, now) ==
  LET charter_result == eng.gate_result.record[1]
      final_output ==
        [prediction |-> prediction, explanation |-> explanation,
         confidence |-> explanation.confidence, task_id |-> task_id,
         charter_verified |-> TRUE, timestamp |-> now,
         biases_detected |-> Len(biases), explanation_detail |-> explanation]
      audited == Audit(eng.audit_log, "Output passed CharterLayer verification", <<>>,
                       [NoDetails EXCEPT
                          !.principles_passed = <<charter_result.principle_results>>,
                          !.confidence = <<charter_result.confidence>>], now)
  IN  Returned([eng EXCEPT
                  !.audit_log = audited,
                  !.active_tasks = [k \in DOMAIN @ \cup {task_id} |->
                                      IF k = task_id THEN final_output ELSE @[k]],
                  !.system_state = [@ EXCEPT !.last_synthesis = <<now>>],
                  !.stages = Append(@, StageRun("store", prediction, OtherIn))],
               final_output)

\* variant: a veto undoes what the explainer and the bias analysis recorded
AfterVerifyRollingBack(verified, call, prediction, explanation, biases, now) ==
  IF verified.gate_result.outcome = "raised"
  THEN OnCharterViolation(
         [verified EXCEPT
            !.explanations_generated = @ - 1,
            !.explanation_log = SubSeq(@, 1, Len(@) - 1),
            !.bias_metrics = SubSeq(@, 1, Len(@) - Len(biases))],
         verified.gate_result.error[1], now)
  ELSE StoreVerified(verified, call.task_id, prediction, explanation, biases, now)

\* after the Gate's answer: the veto is audited and re-raised, a pass is stored
AfterVerify(verified, call, prediction, explanation, biases, now) ==
  IF verified.gate_result.outcome = "raised"
  THEN OnCharterViolation(verified, verified.gate_result.error[1], now)
  ELSE StoreVerified(verified, call.task_id, prediction, explanation, biases, now)

\* step 6: the Gate decides
VerifyStage(eng, call, prediction, explanation, biases, now) ==
  AfterVerify(verify_output(eng, DictOut(PackageKeys), call.context, now),
              call, prediction, explanation, biases, now)

\* the explanation goes into the package the Gate sees
AfterExplain(explained, call, prediction, biases, now) ==
  VerifyStage(Staged(explained.eng, "verify", prediction, OtherIn),
              call, prediction, explained.value, biases, now)

\* step 5: the explanation
ExplainStage(eng, call, prediction, biases, now) ==
  LET feature_importance == Get(call.context, "feature_importance", PyDict({}))
  IN  IF explain_raises(call.sanitized_input, feature_importance)
      THEN OnException(eng, explain_fault(call.sanitized_input), now)
      ELSE AfterExplain(generate_explanation(eng, prediction, call.sanitized_input,
                                             feature_importance, now),
                        call, prediction, biases, now)

\* drs_output is the noised statistic from here on
AfterNoise(noised, call, biases, now) ==
  ExplainStage(Staged(noised.eng, "explain", noised.value, call.sanitized_input),
               call, noised.value, biases, now)

\* variant: the budget is charged but the later stages get the un-noised score
NoiseStageDropped(eng, call, drs_output, biases, noise, now) ==
  LET apply_dp == Truthy(Get(call.context, "apply_dp", PyBool(FALSE)))
      sensitivity == Get(call.context, "sensitivity", PyNum(10))
  IN  IF apply_dp /\ cost_raises(sensitivity)
      THEN OnException(Staged(eng, "noise", drs_output, OtherIn),
                       Exc("noise", "TypeError", "unsupported operand type(s) for /"), now)
      ELSE AfterNoise(IF apply_dp
                      THEN [eng |-> add_differential_privacy_noise(
                                      Staged(eng, "noise", drs_output, OtherIn),
                                      drs_output, sensitivity, noise, now).eng,
                            value |-> drs_output]
                      ELSE [eng |-> eng, value |-> drs_output],
                      call, biases, now)

\* step 4: differential privacy, when context.apply_dp is truthy
NoiseStage(eng, call, drs_output, biases, noise, now) ==
  LET apply_dp == Truthy(Get(call.context, "apply_dp", PyBool(FALSE)))
      sensitivity == Get(call.context, "sensitivity", PyNum(10))
  IN  IF apply_dp /\ cost_raises(sensitivity)
      THEN OnException(Staged(eng, "noise", drs_output, OtherIn),
                       Exc("noise", "TypeError", "unsupported operand type(s) for /"), now)
      ELSE AfterNoise(IF apply_dp
                      THEN add_differential_privacy_noise(
                             Staged(eng, "noise", drs_output, OtherIn),
                             drs_output, sensitivity, noise, now)
                      ELSE [eng |-> eng, value |-> drs_output],
                      call, biases, now)

\* bias_metrics is extended; a violation is audited and nothing more
AfterBias(eng, call, drs_output, biases, noise, now) ==
  NoiseStage([eng EXCEPT
                !.bias_metrics = @ \o biases,
                !.audit_log =
                   IF \E i \in 1..Len(biases) : biases[i].violates_threshold
                   THEN Audit(@, "Bias violations detected in task", <<call.task_id>>,
                              NoDetails, now)
                   ELSE @],
             call, drs_output, biases, noise, now)

\* step 3: bias analysis
BiasStage(eng, call, drs_output, noise, now) ==
  LET demographics == Get(call.context, "demographics", PyDict({}))
  IN  IF analyze_raises(demographics)
      THEN OnException(eng, Exc("bias", "TypeError", "argument is not iterable"), now)
      ELSE AfterBias(eng, call, drs_output,
                     analyze_output([scored |-> FALSE, score |-> drs_output],
                                    demographics, now),
                     noise, now)

\* process() from the wake-up of _process_through_drs to its return or raise
process_rest(eng, call, noise, now) ==
  BiasStage(Staged(Staged(eng, "score", <<>>, call.sanitized_input),
                   "bias", process_through_drs(call.sanitized_input), OtherIn),
            call, process_through_drs(call.sanitized_input), noise, now)

DriftThreshold == <<1, 10>>

\* variant: the threshold comparison is inclusive
detect_alignment_drift_inclusive(log, state) ==
  LET violations == get_verification_history(log).list
      blocked_count == Cardinality({i \in 1..Len(violations) : ~violations[i].passed})
      total_checks == Len(violations)
      drift_rate == IF total_checks > 0 THEN Frac(blocked_count, total_checks) ELSE Zero
      updated == [state EXCEPT !.alignment_score = FracSub(One, drift_rate),
                               !.ethical_drift_detected = ~FracLT(drift_rate, DriftThreshold)]
  IN  [state |-> updated,
       result |-> [alignment_score |-> updated.alignment_score,
                   drift_detected |-> updated.ethical_drift_detected,
                   violation_rate |-> drift_rate,
                   total_checks |-> total_checks]]

\* variant: the score is lowered by the rate at every call
detect_alignment_drift_decay(log, state) ==
  LET violations == get_verification_history(log).list
      blocked_count == Cardinality({i \in 1..Len(violations) : ~violations[i].passed})
      total_checks == Len(violations)
      drift_rate == IF total_checks > 0 THEN Frac(blocked_count, total_checks) ELSE Zero
      updated == [state EXCEPT !.alignment_score = FracSub(@, drift_rate),
                               !.ethical_drift_detected = FracGT(drift_rate, DriftThreshold)]
  IN  [state |-> updated,
       result |-> [alignment_score |-> updated.alignment_score,
                   drift_detected |-> updated.ethical_drift_detected,
                   violation_rate |-> drift_rate,
                   total_checks |-> total_checks]]

\* SynergyEngine.detect_alignment_drift: the new system_state and the result
detect_alignment_drift(log, state) ==
  LET violations == get_verification_history(log).list
      blocked_count == Cardinality({i \in 1..Len(violations) : ~violations[i].passed})
      total_checks == Len(violations)
      drift_rate == IF total_checks > 0 THEN Frac(blocked_count, total_checks) ELSE Zero
      updated == [state EXCEPT !.alignment_score = FracSub(One, drift_rate),
                               !.ethical_drift_detected = FracGT(drift_rate, DriftThreshold)]
  IN  [state |-> updated,
       result |-> [alignment_score |-> updated.alignment_score,
                   drift_detected |-> updated.ethical_drift_detected,
                   violation_rate |-> drift_rate,
                   total_checks |-> total_checks]]

\* PrivacyPreservationModule.get_privacy_report
get_privacy_report(spent, plog) ==
  [epsilon |-> epsilon, privacy_budget_spent |-> spent,
   budget_remaining |-> IF FracGT(spent, One) THEN Zero ELSE FracSub(One, spent),
   total_operations |-> Len(plog),
   status |-> IF FracLT(spent, One) THEN "COMPLIANT" ELSE "BUDGET_EXCEEDED"]

\* the dict get_system_status builds; its 'state' entry is system_state itself,
\* not a copy, so it is read through the engine and not held in the snapshot
StatusOf(eng) ==
  [charter_verifications |-> Len(get_verification_history(eng.verification_log).list),
   biases_detected |-> Len(eng.bias_metrics),
   explanations_generated |-> eng.explanations_generated,
   active_tasks |-> Cardinality(DOMAIN eng.active_tasks),
   privacy_status |-> get_privacy_report(eng.privacy_budget_spent, eng.privacy_log),
   audit_trail_length |-> Len(eng.audit_log)]

\* variant: the call tidies the task map before it counts it
get_system_status_pruning(eng) ==
  [eng |-> [eng EXCEPT !.active_tasks = [k \in {} |-> 0]],
   value |-> StatusOf([eng EXCEPT !.active_tasks = [k \in {} |-> 0]])]

\* SynergyEngine.get_system_status: the engine as the call leaves it, and the
\* snapshot it returns
get_system_status(eng) == [eng |-> eng, value |-> StatusOf(eng)]

(* ------------------------------ inputs --------------------------------- *)
With(kv) == Mapping(kv @@ EmptyItems)

ConsentContext ==
  With("task_id" :> PyStr(1) @@ "user_id" :> PyStr(7) @@ "requires_consent" :> PyBool(TRUE))
ComplexContext == With("is_complex_decision" :> PyBool(TRUE))
EscalateContext ==
  With("uncertainty_level" :> PyNum(8) @@ "auto_escalate" :> PyBool(TRUE))
IllTypedUncertainty == With("task_id" :> PyStr(1) @@ "uncertainty_level" :> PyStr(3))
TestContext ==
  With("task_id" :> PyStr(1) @@ "apply_dp" :> PyBool(FALSE)
       @@ "demographics" :> PyDict({<<"race", "majority">>, <<"gender", "male">>}))
NoisedContext ==
  With("task_id" :> PyStr(2) @@ "apply_dp" :> PyBool(TRUE) @@ "sensitivity" :> PyNum(5))
BadSensitivity == With("apply_dp" :> PyBool(TRUE) @@ "sensitivity" :> PyStr(3))
BadDemographics ==
  With("task_id" :> PyStr(2) @@ "demographics" :> PyNone @@ "apply_dp" :> PyBool(TRUE))
FactorsContext == With("feature_importance" :> PyDict({<<"feature1", 9>>}))


\* verify_output(output, context) calls made directly on the Gate
VerifyCases ==
  { <<StrOut(TXT_test_output), EmptyContext>>,
    <<StrOut(TXT_overconfident), EmptyContext>>,
    <<StrOut(TXT_pii), EmptyContext>>,
    <<StrOut(TXT_discriminatory), EmptyContext>>,
    <<StrOut(TXT_harmful), EmptyContext>>,
    <<StrOut(TXT_hedged), EscalateContext>>,
    <<DictOut({"decision", "amount"}), ComplexContext>>,
    <<DictOut({"prediction", "confidence", "uncertainty"}), EmptyContext>>,
    <<ObjOut({"confidence", "reasoning"}), ComplexContext>>,
    <<StrOut(TXT_test_output), IllTypedUncertainty>>,
    <<StrOut(TXT_overconfident), IllTypedUncertainty>>,
    <<StrOut(TXT_test_output), NotAMapping>> }

\* the candidates and contexts the five checks are exercised on
CheckCandidates ==
  {StrOut(t) : t \in Texts}
    \cup { StrObjOut(TXT_overconfident, {"confidence"}),
           StrObjOut(TXT_shouted, {"uncertainty"}),
           DictOut({"decision", "amount"}),
           DictOut({"prediction", "confidence", "uncertainty"}),
           DictOut({"reasoning"}),
           ObjOut({"confidence", "reasoning"}),
           ObjOut({"explanation"}),
           ObjOut({}) }
CheckContexts ==
  { EmptyContext, ConsentContext, ComplexContext, EscalateContext,
    NotAMapping, IllTypedUncertainty,
    With("user_id" :> PyStr(7) @@ "requires_consent" :> PyBool(TRUE)
         @@ "consent_given" :> PyBool(TRUE)),
    With("requires_consent" :> PyBool(TRUE)),
    With("user_id" :> PyStr(7) @@ "requires_consent" :> PyBool(FALSE)),
    With("is_complex_decision" :> PyBool(FALSE) @@ "safety_discussion" :> PyBool(FALSE)),
    With("uncertainty_level" :> PyNum(8) @@ "auto_escalate" :> PyBool(FALSE)),
    With("safety_discussion" :> PyBool(TRUE)),
    With("safety_discussion" :> PyBool(TRUE) @@ "uncertainty_level" :> PyNum(9)) }
CheckCases == CheckCandidates \X CheckContexts

TestInput ==
  DictIn(<<NumVal(<<1, 2>>), NumVal(<<3, 4>>), NumVal(<<3, 10>>)>>)
TextInput == StrIn(<<"contact", "email">>)

\* process(input_data, context) calls
ProcessCases ==
  { <<TestInput, TestContext>>,
    <<TestInput, ConsentContext>>,
    <<TextInput, EmptyContext>>,
    <<TestInput, NoisedContext>>,
    <<TestInput, With("task_id" :> PyStr(2) @@ "apply_dp" :> PyBool(TRUE))>>,
    <<TextInput, NoisedContext>>,
    <<TestInput, With("task_id" :> PyStr(1) @@ "user_id" :> PyStr(7)
                      @@ "requires_consent" :> PyBool(TRUE) @@ "apply_dp" :> PyBool(TRUE)
                      @@ "demographics" :> PyDict({<<"race", "minority">>}))>>,
    <<TextInput, FactorsContext>>,
    <<TestInput, BadSensitivity>>,
    <<TestInput, BadDemographics>>,
    <<FaultyIn, EmptyContext>>,
    <<FaultyGet, FactorsContext>>,
    <<TestInput, NotAMapping>>,
    <<TestInput, IllTypedUncertainty>> }

\* the calls each specification draws from
PipelineCases ==
  { <<TestInput, TestContext>>, <<TestInput, ConsentContext>>,
    <<TestInput, NoisedContext>> }
BlockedCases == { <<StrOut(TXT_overconfident), EmptyContext>> }
PassingCases == { <<StrOut(TXT_test_output), EmptyContext>> }
VetoedCases == { <<TestInput, ConsentContext>> }
GateProcessCases ==
  { <<TestInput, TestContext>>, <<TestInput, ConsentContext>>,
    <<TestInput, IllTypedUncertainty>> }
  \cup { <<TestInput,
          With("task_id" :> PyStr(1) @@ "user_id" :> user_id
               @@ "requires_consent" :> requires_consent
               @@ "consent_given" :> consent_given
               @@ "is_complex_decision" :> PyBool(TRUE)
               @@ "uncertainty_level" :> PyNum(9))>> :
          user_id \in {Absent, PyStr(0), PyStr(7)},
          requires_consent \in {PyBool(FALSE), PyBool(TRUE)},
          consent_given \in {Absent, PyBool(FALSE), PyBool(TRUE)} }
AuditProcessCases ==
  { <<TestInput, TestContext>>, <<TestInput, ConsentContext>> }

\* the Laplace draws
Noises == { <<-1, 10>>, <<1, 10>> }

(* --------------------------- construction ------------------------------ *)
\* ModuleConfig instances: name, version and governance_level good or bad,
\* auditing on or off
Configs ==
  [name : {ModuleName, ""}, version : {"1.0", ""}, audit_enabled : BOOLEAN,
   governance_level : {"standard", "strict", "unrestricted", "lenient"}]

\* variant: the governance level is not looked at
verify_governance_compliance_any_level(config) ==
  /\ config.name # ""
  /\ config.version # ""
  /\ config.audit_enabled

\* all(compliance_checks.values())
verify_governance_compliance(config) ==
  /\ config.name # ""
  /\ config.version # ""
  /\ config.audit_enabled
  /\ config.governance_level \in {"standard", "strict", "unrestricted"}

\* the attributes the object has: those BaseNeuralModule.__init__ sets before
\* the compliance check and, once built, those SynergyEngine.__init__ adds
Attributes(built) ==
  {"config", "logger", "audit_log", "initialization_time"}
    \cup (IF built
          THEN {"charter_layer", "bias_detector", "privacy_module", "explainability",
                "active_tasks", "system_state"}
          ELSE {})

\* the engine SynergyEngine.__init__ leaves at time now
NewEngine(now) ==
  [verification_log |-> <<>>,
   audit_log |-> <<AuditEntry("Governance compliance verified", <<>>, NoDetails, now),
                   AuditEntry("Synergy Engine initialized with 4 governance modules",
                              <<>>, NoDetails, now)>>,
   active_tasks |-> [k \in {} |-> 0],
   system_state |-> [alignment_score |-> One, coherence_level |-> One,
                     ethical_drift_detected |-> FALSE, last_synthesis |-> <<>>],
   bias_metrics |-> <<>>, privacy_budget_spent |-> Zero, privacy_log |-> <<>>,
   explanation_log |-> <<>>, explanations_generated |-> 0,
   gate_args |-> <<>>, gate_result |-> [outcome |-> "none", record |-> <<>>, error |-> <<>>],
   verify_calls |-> 0]

(* ------------------------------- Init ---------------------------------- *)
Slots == 1..MaxCalls

IdleCall ==
  [pc |-> "idle", input_data |-> OtherIn, sanitized_input |-> OtherIn,
   context |-> EmptyContext, task_id |-> PyNone,
   outcome |-> "none", value |-> <<>>, error |-> <<>>, stages |-> <<>>]

NoResult == [outcome |-> "none", record |-> <<>>, error |-> <<>>]

\* again: the step before was the same operation; since_status: the operations
\* called since the latest get_system_status call
Op(name, slot) == [name |-> name, slot |-> slot, again |-> FALSE, since_status |-> {}]
NextOp(name, slot) ==
  [name |-> name, slot |-> slot, again |-> last_op.name = name,
   since_status |-> IF name = "get_system_status" THEN {}
                    ELSE last_op.since_status \cup {name}]

\* the state SynergyEngine.__init__ leaves, for a config that passes the
\* compliance check
Init ==
  /\ verification_log = <<>>
  /\ audit_log = <<AuditEntry("Governance compliance verified", <<>>, NoDetails, 0),
                   AuditEntry("Synergy Engine initialized with 4 governance modules",
                              <<>>, NoDetails, 0)>>
  /\ active_tasks = [k \in {} |-> 0]
  /\ system_state = [alignment_score |-> One, coherence_level |-> One,
                     ethical_drift_detected |-> FALSE, last_synthesis |-> <<>>]
  /\ bias_metrics = <<>>
  /\ privacy_budget_spent = Zero
  /\ privacy_log = <<>>
  /\ explanation_log = <<>>
  /\ explanations_generated = 0
  /\ clock = 1
  /\ calls = [c \in Slots |-> IdleCall]
  /\ gate_args = <<>>
  /\ gate_result = NoResult
  /\ drift_result = <<>>
  /\ status_result = <<>>
  /\ verify_calls = 0
  /\ direct_calls = 0
  /\ last_op = Op("init", 0)
  /\ module = [config |-> <<[name |-> ModuleName, version |-> "1.0",
                             audit_enabled |-> TRUE, governance_level |-> "standard"]>>,
               attributes |-> Attributes(TRUE), error |-> <<>>]

(* ------------------------------ actions -------------------------------- *)
\* every engine field takes its value from eng
SetEngine(eng) ==
  /\ verification_log' = eng.verification_log
  /\ audit_log' = eng.audit_log
  /\ active_tasks' = eng.active_tasks
  /\ system_state' = eng.system_state
  /\ bias_metrics' = eng.bias_metrics
  /\ privacy_budget_spent' = eng.privacy_budget_spent
  /\ privacy_log' = eng.privacy_log
  /\ explanation_log' = eng.explanation_log
  /\ explanations_generated' = eng.explanations_generated
  /\ gate_args' = eng.gate_args
  /\ gate_result' = eng.gate_result
  /\ verify_calls' = eng.verify_calls

\* before SynergyEngine(config) is called: no object, no attribute
InitNew ==
  /\ verification_log = <<>>
  /\ audit_log = <<>>
  /\ active_tasks = <<>>
  /\ system_state = <<>>
  /\ bias_metrics = <<>>
  /\ privacy_budget_spent = Zero
  /\ privacy_log = <<>>
  /\ explanation_log = <<>>
  /\ explanations_generated = 0
  /\ clock = 0
  /\ calls = [c \in Slots |-> IdleCall]
  /\ gate_args = <<>>
  /\ gate_result = NoResult
  /\ drift_result = <<>>
  /\ status_result = <<>>
  /\ verify_calls = 0
  /\ direct_calls = 0
  /\ last_op = Op("none", 0)
  /\ module = [config |-> <<>>, attributes |-> {}, error |-> <<>>]

\* SynergyEngine(config): BaseNeuralModule.__init__ sets config and audit_log and
\* runs the compliance check; only when it passes are the subsystems, the task
\* map and the system state created
Construct(config) ==
  /\ module.config = <<>>
  /\ IF verify_governance_compliance(config)
     THEN /\ SetEngine(NewEngine(clock))
          /\ module' = [config |-> <<config>>, attributes |-> Attributes(TRUE),
                        error |-> <<>>]
     ELSE /\ module' = [config |-> <<config>>, attributes |-> Attributes(FALSE),
                        error |-> <<Exc("construct", "ValueError",
                                        "Module does not meet governance standards")>>]
          /\ UNCHANGED <<verification_log, audit_log, active_tasks, system_state,
                         bias_metrics, privacy_budget_spent, privacy_log, explanation_log,
                         explanations_generated, gate_args, gate_result, verify_calls>>
  /\ clock' = clock + 1
  /\ last_op' = Op("init", 0)
  /\ UNCHANGED <<calls, drift_result, status_result, direct_calls>>

\* a caller awaits charter_layer.verify_output(output, context)
Verify(case, max) ==
  /\ direct_calls < max
  /\ SetEngine(verify_output(Engine, case[1], case[2], clock))
  /\ direct_calls' = direct_calls + 1
  /\ clock' = clock + 1
  /\ last_op' = NextOp("verify_output", 0)
  /\ UNCHANGED <<calls, drift_result, status_result, module>>

\* process() from its call to the sleep inside _process_through_drs; context.get
\* at line 59 is outside the try and raises on a context that is no mapping
ProcessBegin(c, case) ==
  /\ calls[c].pc = "idle"
  /\ \A b \in Slots : b < c => calls[b].pc # "idle"
  /\ LET context == OrEmpty(case[2])
         task_id == Get(context, "task_id", TaskName(clock))
     IN  IF ~context.ismap
         THEN /\ SetEngine(Engine)
              /\ calls' = [calls EXCEPT ![c] =
                   [IdleCall EXCEPT !.pc = "done", !.outcome = "unhandled",
                      !.error = <<Exc("process", "AttributeError",
                                      "object has no attribute")>>]]
         ELSE IF sanitize_raises(case[1])
         THEN LET failed == OnException(Engine, Exc("sanitize", "RuntimeError", "boom"), clock)
              IN  /\ SetEngine(failed.eng)
                  /\ calls' = [calls EXCEPT ![c] =
                       [IdleCall EXCEPT !.pc = "done", !.task_id = task_id,
                                        !.outcome = failed.outcome, !.error = failed.error,
                                        !.stages = <<StageRun("sanitize", <<>>, case[1])>>]]
         ELSE /\ SetEngine([Engine EXCEPT !.audit_log =
                    Audit(@, "Input sanitized for task", <<task_id>>, NoDetails, clock)])
              /\ calls' = [calls EXCEPT ![c] =
                   [IdleCall EXCEPT !.pc = "drs", !.input_data = case[1],
                                    !.sanitized_input = sanitize_input(case[1]),
                                    !.context = context, !.task_id = task_id,
                                    !.stages = <<StageRun("sanitize", <<>>, case[1])>>]]
  /\ clock' = clock + 1
  /\ last_op' = NextOp("process", c)
  /\ UNCHANGED <<drift_result, status_result, direct_calls, module>>

\* process() called while no other call is in flight
ProcessBeginAlone(c, case) ==
  /\ \A b \in Slots : calls[b].pc # "drs"
  /\ ProcessBegin(c, case)

\* process() ends: the engine is as the call left it, the caller has its outcome
Finish(c, done) ==
  /\ SetEngine(done.eng)
  /\ calls' = [calls EXCEPT ![c] =
       [IdleCall EXCEPT !.pc = "done", !.task_id = calls[c].task_id,
                        !.outcome = done.outcome, !.value = done.value,
                        !.error = done.error,
                        !.stages = calls[c].stages \o done.eng.stages]]

\* process() from the wake-up to its return or raise
ProcessResume(c) ==
  /\ calls[c].pc = "drs"
  /\ \E noise \in Noises : Finish(c, process_rest(Engine, calls[c], noise, clock))
  /\ clock' = clock + 1
  /\ last_op' = NextOp("process", c)
  /\ UNCHANGED <<drift_result, status_result, direct_calls, module>>

\* variant: last_synthesis is stamped before the cancellation takes effect
ProcessCancelAfterStamp(c) ==
  /\ calls[c].pc = "drs"
  /\ calls' = [calls EXCEPT ![c] =
       [IdleCall EXCEPT !.pc = "done", !.task_id = calls[c].task_id,
                        !.outcome = "cancelled",
                        !.error = <<Exc("score", "CancelledError", "")>>,
                        !.stages = calls[c].stages]]
  /\ last_op' = NextOp("cancel", c)
  /\ system_state' = [system_state EXCEPT !.last_synthesis = <<clock>>]
  /\ UNCHANGED <<verification_log, audit_log, active_tasks, bias_metrics,
                 privacy_budget_spent, privacy_log, explanation_log,
                 explanations_generated, clock, gate_args, gate_result, drift_result,
                 status_result, verify_calls, direct_calls, module>>

\* the task awaiting the sleep is cancelled: CancelledError is no Exception, so
\* neither except clause of process() runs
ProcessCancel(c) ==
  /\ calls[c].pc = "drs"
  /\ calls' = [calls EXCEPT ![c] =
       [IdleCall EXCEPT !.pc = "done", !.task_id = calls[c].task_id,
                        !.outcome = "cancelled",
                        !.error = <<Exc("score", "CancelledError", "")>>,
                        !.stages = calls[c].stages]]
  /\ last_op' = NextOp("cancel", c)
  /\ UNCHANGED <<verification_log, audit_log, active_tasks, system_state, bias_metrics,
                 privacy_budget_spent, privacy_log, explanation_log,
                 explanations_generated, clock, gate_args, gate_result, drift_result,
                 status_result, verify_calls, direct_calls, module>>

DetectAlignmentDrift ==
  /\ LET d == detect_alignment_drift(verification_log, system_state)
     IN  /\ system_state' = d.state
         /\ drift_result' = <<d.result>>
  /\ last_op' = NextOp("detect_alignment_drift", 0)
  /\ UNCHANGED <<verification_log, audit_log, active_tasks, bias_metrics,
                 privacy_budget_spent, privacy_log, explanation_log,
                 explanations_generated, clock, calls, gate_args, gate_result, status_result,
                 verify_calls, direct_calls, module>>

GetSystemStatus ==
  /\ LET status == get_system_status(Engine)
     IN  /\ SetEngine(status.eng)
         /\ status_result' = <<status.value>>
  /\ last_op' = NextOp("get_system_status", 0)
  /\ UNCHANGED <<clock, calls, drift_result, direct_calls, module>>

\* a caller takes get_verification_history() and empties the list it got
GetVerificationHistory ==
  /\ verification_log' =
       IF get_verification_history(verification_log).shared THEN <<>> ELSE verification_log
  /\ last_op' = NextOp("get_verification_history", 0)
  /\ UNCHANGED <<audit_log, active_tasks, system_state, bias_metrics,
                 privacy_budget_spent, privacy_log, explanation_log,
                 explanations_generated, clock, calls, gate_args, gate_result, drift_result,
                 status_result, verify_calls, direct_calls, module>>

\* a caller takes get_audit_trail() and empties the list it got
GetAuditTrail ==
  /\ audit_log' = IF get_audit_trail(audit_log).shared THEN <<>> ELSE audit_log
  /\ last_op' = NextOp("get_audit_trail", 0)
  /\ UNCHANGED <<verification_log, active_tasks, system_state, bias_metrics,
                 privacy_budget_spent, privacy_log, explanation_log,
                 explanations_generated, clock, calls, gate_args, gate_result, drift_result,
                 status_result, verify_calls, direct_calls, module>>

\* the pipeline, with direct Gate calls beside it
Next ==
  \/ \E case \in PassingCases : Verify(case, MaxDirect)
  \/ \E c \in Slots : \E case \in PipelineCases : ProcessBegin(c, case)
  \/ \E c \in Slots : ProcessResume(c)
  \/ \E c \in Slots : ProcessCancel(c)

Spec == Init /\ [][Next]_vars

\* every way a process() call can end, the calls made one after the other
NextFaults ==
  \/ \E c \in Slots : \E case \in ProcessCases : ProcessBeginAlone(c, case)
  \/ \E c \in Slots : ProcessResume(c)
  \/ \E c \in Slots : ProcessCancel(c)

SpecFaults == Init /\ [][NextFaults]_vars

\* the Gate under every kind of candidate and context
NextGate ==
  \/ \E case \in VerifyCases : Verify(case, MaxVerify)
  \/ \E c \in 1..GateCalls : \E case \in GateProcessCases : ProcessBegin(c, case)
  \/ \E c \in 1..GateCalls : ProcessResume(c)

SpecGate == Init /\ [][NextGate]_vars

\* construction under every kind of config, then process() calls on the
\* object the constructor returned (a constructor that raises returns none)
NextConstruct ==
  \/ \E config \in Configs : Construct(config)
  \/ /\ module.config # <<>>
     /\ module.error = <<>>
     /\ \/ \E c \in 1..ConstructCalls : \E case \in PipelineCases : ProcessBeginAlone(c, case)
        \/ \E c \in 1..ConstructCalls : ProcessResume(c)

SpecConstruct == InitNew /\ [][NextConstruct]_vars

\* the five checks, on every candidate under every context
NextChecks == \E case \in CheckCases : Verify(case, CheckCalls)

SpecChecks == Init /\ [][NextChecks]_vars

\* every operation the logs live through, the readers included
NextAudit ==
  \/ \E case \in BlockedCases : Verify(case, AuditVerify)
  \/ \E c \in 1..AuditCalls : \E case \in AuditProcessCases : ProcessBegin(c, case)
  \/ \E c \in 1..AuditCalls : ProcessResume(c)
  \/ DetectAlignmentDrift
  \/ GetSystemStatus
  \/ GetVerificationHistory
  \/ GetAuditTrail

SpecAudit == Init /\ [][NextAudit]_vars

\* long histories: passing direct verifications, vetoed process() calls
NextDrift ==
  \/ \E case \in PassingCases : Verify(case, MaxDriftChecks)
  \/ \E c \in 1..DriftCalls : \E case \in VetoedCases : ProcessBegin(c, case)
  \/ \E c \in 1..DriftCalls : ProcessResume(c)
  \/ DetectAlignmentDrift

SpecDrift == Init /\ [][NextDrift]_vars

(* ------------------------------ claims --------------------------------- *)
Last(s) == s[Len(s)]
Range(s) == {s[i] : i \in 1..Len(s)}
IsPrefix(s, t) == Len(s) <= Len(t) /\ \A i \in 1..Len(s) : s[i] = t[i]
PassedCount(log) == Cardinality({i \in 1..Len(log) : log[i].passed})
FailedCount(log) == Cardinality({i \in 1..Len(log) : ~log[i].passed})
PassedPrinciples(rec) == {p \in DOMAIN rec.principle_results : rec.principle_results[p]}

\* what the check of principle p gives on the arguments of the latest call
LatestOutcome(p) ==
  charter_rules(p, gate_args[1].output, OrEmpty(gate_args[1].context))

\* C1: every verify_output call appends exactly one record, on a pass and on a
\* veto alike: after k calls the history holds exactly k records.
C1_OneRecordPerVerify == Len(verification_log) = verify_calls

\* C1 witness: several calls were made, some passed, the latest was vetoed.
C1_Witness ==
  /\ verify_calls >= 2
  /\ PassedCount(verification_log) >= 1
  /\ gate_result.outcome = "raised"
  /\ ~Last(verification_log).passed

\* C2: verify_output returns the record exactly when all five checks passed
\* (passed is the AND of the five results); otherwise it raises
\* CharterViolationError and the caller gets no record.
C2_ReturnIffAllPass ==
  gate_args # <<>> =>
    LET rec == Last(verification_log)
        five == \A p \in PrincipleValues : LatestOutcome(p) = "True"
    IN  /\ \A p \in PrincipleValues : rec.principle_results[p] = (LatestOutcome(p) = "True")
        /\ rec.passed = five
        /\ five => /\ gate_result.outcome = "returned"
                   /\ gate_result.record = <<rec>>
                   /\ gate_result.error = <<>>
        /\ ~five => /\ gate_result.outcome = "raised"
                    /\ gate_result.record = <<>>
                    /\ Len(gate_result.error) = 1
                    /\ gate_result.error[1].type = "CharterViolationError"

\* C2 witness: a call in which four of the five checks passed was vetoed.
C2_Witness ==
  /\ gate_args # <<>>
  /\ gate_result.outcome = "raised"
  /\ Cardinality({p \in PrincipleValues : LatestOutcome(p) = "True"}) = 4

\* C3: every package process returned or stored carries charter_verified = true
\* and comes from a call whose Gate record has passed = true; the packages
\* stored, and the packages returned, never outnumber the passed records.
VerifiedPackage(pkg) ==
  /\ pkg.charter_verified
  /\ \E i \in 1..Len(verification_log) :
        verification_log[i].passed /\ verification_log[i].timestamp = pkg.timestamp

C3_NoOutputWithoutPass ==
  /\ \A k \in DOMAIN active_tasks : VerifiedPackage(active_tasks[k])
  /\ \A c \in Slots : calls[c].outcome = "returned" =>
        Len(calls[c].value) = 1 /\ VerifiedPackage(calls[c].value[1])
  /\ \A c \in Slots : calls[c].outcome # "returned" => calls[c].value = <<>>
  /\ Cardinality(DOMAIN active_tasks) <= PassedCount(verification_log)
  /\ Cardinality({c \in Slots : calls[c].outcome = "returned"})
        <= PassedCount(verification_log)

\* C3 witness: one call was vetoed, another returned a package that is stored.
C3_Witness ==
  /\ \E c \in Slots : calls[c].outcome = "veto"
  /\ \E c \in Slots : /\ calls[c].outcome = "returned"
                      /\ calls[c].task_id \in DOMAIN active_tasks
                      /\ active_tasks[calls[c].task_id] = calls[c].value[1]

\* C4: a process call that ends in a veto or in a fault of a collaborator stage
\* leaves the task map and every field of system_state as they were, in the
\* step that starts it and in the step that fails, and the caller gets the
\* error (the Gate's own error on a veto).
Starts(c) == calls[c].pc = "idle" /\ calls'[c].pc # "idle"

FailsIn(c) ==
  /\ calls[c].pc # "done"
  /\ calls'[c].pc = "done"
  /\ calls'[c].outcome \in {"veto", "error"}

C4_FailedProcessChangesNothing ==
  [][\A c \in Slots :
        /\ Starts(c) => active_tasks' = active_tasks /\ system_state' = system_state
        /\ FailsIn(c) =>
              /\ active_tasks' = active_tasks
              /\ system_state' = system_state
              /\ Len(calls'[c].error) = 1
              /\ calls'[c].value = <<>>
              /\ calls'[c].outcome = "veto" => calls'[c].error = gate_result'.error
              /\ calls'[c].outcome = "error" =>
                    calls'[c].error[1].type # "CharterViolationError"]_vars

\* C4 witness: the latest audit entry records a failure of a call whose task_id
\* an earlier, successful call had stored.
C4_Witness ==
  /\ Last(audit_log).event \in {"Processing error", "Output blocked by CharterLayer"}
  /\ system_state.last_synthesis # <<>>
  /\ \E c \in Slots : /\ calls[c].outcome \in {"veto", "error"}
                      /\ calls[c].task_id \in DOMAIN active_tasks

\* C5: a check that raises is recorded as a failed principle with a reason, the
\* other principles are evaluated all the same, the record is appended, and the
\* caller sees the veto error and not the fault.
C5_FailClosed ==
  gate_args # <<>> =>
    LET rec == Last(verification_log)
    IN  \A p \in PrincipleValues : LatestOutcome(p) = "Raise" =>
          /\ ~rec.principle_results[p]
          /\ <<"Check failed", p>> \in Range(rec.violations)
          /\ \A q \in PrincipleValues \ {p} :
                /\ q \in DOMAIN rec.principle_results
                /\ LatestOutcome(q) # "Raise" =>
                      rec.principle_results[q] = (LatestOutcome(q) = "True")
          /\ ~rec.passed
          /\ Len(verification_log) = verify_calls
          /\ gate_result.outcome = "raised"
          /\ gate_result.error[1].type = "CharterViolationError"

\* C5 witness: in one call a check raised, another failed, a third passed.
C5_Witness ==
  /\ gate_args # <<>>
  /\ \E p \in PrincipleValues : LatestOutcome(p) = "Raise"
  /\ \E p \in PrincipleValues : LatestOutcome(p) = "False"
  /\ \E p \in PrincipleValues : LatestOutcome(p) = "True"

\* C6: the veto error carries the violations of the record just appended: one
\* reason for each principle whose result is false, none for the others; and a
\* record has passed = true exactly when its violations are empty.
ReasonsFor(rec, p) == {i \in 1..Len(rec.violations) : rec.violations[i][2] = p}

C6_VetoCarriesViolations ==
  /\ \A i \in 1..Len(verification_log) :
        LET rec == verification_log[i]
        IN  /\ rec.passed = (rec.violations = <<>>)
            /\ \A p \in PrincipleValues :
                  Cardinality(ReasonsFor(rec, p)) = IF rec.principle_results[p] THEN 0 ELSE 1
  /\ gate_result.outcome = "raised" =>
        gate_result.error[1].violations = Last(verification_log).violations

\* C6 witness: a veto that names several principles, one of them by a fault.
C6_Witness ==
  /\ gate_result.outcome = "raised"
  /\ Len(gate_result.error[1].violations) >= 2
  /\ \E i \in 1..Len(gate_result.error[1].violations) :
        gate_result.error[1].violations[i][1] = "Check failed"

\* C7: every record has a result for each of the five principles and
\* confidence = (principles passed) / 5, so confidence is 1 exactly when passed,
\* and the record of a vetoed call has confidence below 1.
C7_ConfidenceIsFraction ==
  /\ \A i \in 1..Len(verification_log) :
        LET rec == verification_log[i]
        IN  /\ DOMAIN rec.principle_results = PrincipleValues
            /\ Cardinality(PrincipleValues) = 5
            /\ rec.confidence[1] * 5 = Cardinality(PassedPrinciples(rec)) * rec.confidence[2]
            /\ (rec.confidence = One) = rec.passed
  /\ gate_result.outcome = "raised" => FracLT(Last(verification_log).confidence, One)

\* C7 witness: a vetoed call in which three of the five principles passed.
C7_Witness ==
  /\ gate_result.outcome = "raised"
  /\ Last(verification_log).confidence = <<3, 5>>
  /\ PassedCount(verification_log) >= 1

\* C8: the verification history and the audit log only grow: across every
\* operation, a reader emptying the list a getter gave it included, each log
\* keeps its entries, in order, and its length never decreases.
C8_LogsAppendOnly ==
  [][/\ IsPrefix(verification_log, verification_log')
     /\ IsPrefix(audit_log, audit_log')]_vars

\* C8 witness: a reader took the history of a Gate that had vetoed and passed
\* outputs, emptied its list, and the log stands.
C8_Witness ==
  /\ last_op.name \in {"get_verification_history", "get_audit_trail"}
  /\ last_op.again
  /\ Len(verification_log) >= 2
  /\ Len(audit_log) >= 4

\* C9: detect_alignment_drift over N records with V failures reports
\* total_checks = N, violation_rate = V/N (0 for N = 0), alignment_score =
\* 1 - V/N, drift_detected = (V/N > 0.1) strictly, and stores score and flag in
\* system_state; the records of vetoed process calls count in V.
C9_DriftReport ==
  last_op.name = "detect_alignment_drift" =>
    LET r == drift_result[1]
        N == Len(verification_log)
        V == FailedCount(verification_log)
    IN  /\ r.total_checks = N
        /\ r.violation_rate[1] * (IF N = 0 THEN 1 ELSE N) = V * r.violation_rate[2]
        /\ N = 0 => r.violation_rate = Zero
        /\ r.alignment_score[1] * (IF N = 0 THEN 1 ELSE N)
              = ((IF N = 0 THEN 1 ELSE N) - V) * r.alignment_score[2]
        /\ r.drift_detected = (10 * V > N)
        /\ system_state.alignment_score = r.alignment_score
        /\ system_state.ethical_drift_detected = r.drift_detected

\* C9 witness: 10 records, the single failure is a vetoed process call: the rate
\* is exactly 0.1 and no drift is reported.
C9_Witness ==
  /\ last_op.name = "detect_alignment_drift"
  /\ Len(verification_log) = 10
  /\ FailedCount(verification_log) = 1
  /\ \E c \in Slots : calls[c].outcome = "veto"
  /\ ~drift_result[1].drift_detected
  /\ drift_result[1].violation_rate = <<1, 10>>

\* C10: detect_alignment_drift changes neither the history, the task map, the
\* audit log nor last_synthesis, and a call made while the history is as the
\* call before it saw it (no record was appended since) returns the same
\* result and leaves system_state as that call left it.
C10_DriftIdempotent ==
  [][last_op'.name = "detect_alignment_drift" =>
        /\ verification_log' = verification_log
        /\ active_tasks' = active_tasks
        /\ audit_log' = audit_log
        /\ system_state'.last_synthesis = system_state.last_synthesis
        /\ (drift_result # <<>> /\ drift_result[1].total_checks = Len(verification_log)) =>
              /\ drift_result' = drift_result
              /\ system_state' = system_state]_vars

\* C10 witness: two calls in a row over a history with failures, after a task
\* was stored.
C10_Witness ==
  /\ last_op.name = "detect_alignment_drift"
  /\ last_op.again
  /\ drift_result[1].total_checks >= 2
  /\ drift_result[1].violation_rate # Zero
  /\ system_state.last_synthesis # <<>>

\* C11: get_system_status changes no field of system_state, the history, the
\* task map, the audit log or a collaborator's state, and two calls with no
\* process, detect_alignment_drift or verify_output call in between return
\* equal snapshots.
EngineUnchanged ==
  /\ verification_log' = verification_log
  /\ audit_log' = audit_log
  /\ active_tasks' = active_tasks
  /\ system_state' = system_state
  /\ bias_metrics' = bias_metrics
  /\ privacy_budget_spent' = privacy_budget_spent
  /\ privacy_log' = privacy_log
  /\ explanation_log' = explanation_log
  /\ explanations_generated' = explanations_generated

C12_FailureAudited ==
  [][\A c \in Slots : FailsIn(c) =>
        /\ Len(audit_log') > Len(audit_log)
        /\ Last(audit_log').event =
              (IF calls'[c].outcome = "veto" THEN "Output blocked by CharterLayer"
               ELSE "Processing error")
        /\ Last(audit_log').details.error = <<StrOf(calls'[c].error[1])>>]_vars

\* C12 witness: the first call failed in sanitize_input, the first stage, and its
\* only audit entry is the one of the failure; a later call was vetoed.
C12_Witness ==
  /\ calls[1].outcome = "error"
  /\ calls[1].error[1].stage = "sanitize"
  /\ audit_log[3].event = "Processing error"
  /\ \E c \in Slots : calls[c].outcome = "veto"
  /\ Last(audit_log).event = "Output blocked by CharterLayer"

\* C13: the audit entry of a fault of a collaborator stage names the stage, so
\* the entries of faults of two different stages can be told apart by what they
\* say (their timestamps aside).
FaultEntries == SelectSeq(audit_log, LAMBDA a : a.event = "Processing error")

\* the calls are made one after the other: the n-th call that ended in a fault
\* wrote the n-th fault entry
FaultEntryOf(c) ==
  FaultEntries[Cardinality({d \in Slots : d <= c /\ calls[d].outcome = "error"})]

Described(entry) ==
  [module |-> entry.module, event |-> entry.event, task |-> entry.task,
   details |-> entry.details]

C13_StageNamed ==
  \A c, d \in Slots :
     (/\ calls[c].outcome = "error"
      /\ calls[d].outcome = "error"
      /\ calls[c].error[1].stage # calls[d].error[1].stage)
       => Described(FaultEntryOf(c)) # Described(FaultEntryOf(d))

(* --------------------------- the five checks --------------------------- *)
\* the latest verify_output call: its candidate, its context, the record it logged
LatestOutput == gate_args[1].output
LatestContext == gate_args[1].context
LatestRecord == verification_log[Len(verification_log)]
\* the record lists the check as violated (it returned False)
CheckFailed(p) ==
  \E i \in 1..Len(LatestRecord.violations) : LatestRecord.violations[i] = <<"Violated", p>>
\* the record lists the check as one that raised
CheckRaised(p) ==
  \E i \in 1..Len(LatestRecord.violations) : LatestRecord.violations[i] = <<"Check failed", p>>
CheckPassed(p) == LatestRecord.principle_results[p]
Textual(output) == output.kind = "str"
\* some entry of the list occurs in the lower-cased text
Mentions(list, text) == \E k \in 1..Len(list) : Contains(list[k], Lower(text))
\* a confidence or uncertainty attribute or key
ConfidenceIndicator(output) ==
  {"confidence", "uncertainty"} \cap (output.attrs \cup output.names) # {}
\* context[key] is present and true
IsTrue(context, key) == context.ismap /\ context.kv[key] = PyBool(TRUE)

\* C14: the NO_DECEPTION check fails exactly when the candidate is textual,
\* contains a phrase of the absolute-certainty denylist in any letter case and
\* exposes no confidence or uncertainty indicator; a candidate with such a
\* field or attribute passes whatever its wording.
C14_HonestyCheck ==
  gate_args # <<>> =>
    /\ CheckFailed("no_deception") <=>
          /\ Textual(LatestOutput)
          /\ Mentions(deception_markers, LatestOutput.text)
          /\ ~ConfidenceIndicator(LatestOutput)
    /\ CheckPassed("no_deception") <=> ~CheckFailed("no_deception")
    /\ ConfidenceIndicator(LatestOutput) => CheckPassed("no_deception")

\* a textual candidate with a confidence attribute and a denylisted phrase passed
C14_Witness ==
  /\ gate_args # <<>>
  /\ Textual(LatestOutput)
  /\ "confidence" \in LatestOutput.attrs
  /\ Mentions(deception_markers, LatestOutput.text)
  /\ CheckPassed("no_deception")
  /\ ~CheckFailed("no_deception")

\* C15: the HUMAN_DIGNITY check fails if and only if the candidate is textual
\* with a sensitive-data keyword, or context.requires_consent is true and
\* context.consent_given is not; the second case holds whatever the candidate
\* and whatever the other context keys, user_id included.
C15_DignityCheck ==
  (gate_args # <<>> /\ LatestContext.ismap) =>
    (CheckFailed("human_dignity") <=>
       \/ Textual(LatestOutput) /\ Mentions(sensitive_keywords, LatestOutput.text)
       \/ /\ IsTrue(LatestContext, "requires_consent")
          /\ ~IsTrue(LatestContext, "consent_given"))

C17_DiscriminatoryBlocked ==
  (/\ gate_args # <<>>
   /\ LatestOutput = StrOut(TXT_discriminatory)
   /\ LatestContext = EmptyContext) =>
    /\ gate_result.outcome = "raised"
    /\ gate_result.error[1].type = "CharterViolationError"

\* a reasoning or explanation attribute or key
ReasoningField(output) ==
  {"reasoning", "explanation"} \cap (output.attrs \cup output.names) # {}

\* C18: the TRANSPARENCY check passes whenever the candidate exposes a
\* reasoning or explanation field, whatever the context; without such a field
\* it fails exactly when context.is_complex_decision is true. A mapping
\* candidate without reasoning is vetoed under is_complex_decision = true and
\* passes with an empty context.
C18_TransparencyCheck ==
  gate_args # <<>> =>
    /\ ReasoningField(LatestOutput) => CheckPassed("transparency")
    /\ (~ReasoningField(LatestOutput) /\ LatestContext.ismap) =>
          /\ CheckFailed("transparency") <=> IsTrue(LatestContext, "is_complex_decision")
          /\ CheckPassed("transparency") <=> ~CheckFailed("transparency")
    /\ LatestOutput = DictOut({"decision", "amount"}) =>
          /\ LatestContext = ComplexContext => gate_result.outcome = "raised"
          /\ LatestContext = EmptyContext =>
                gate_result.outcome = "returned" /\ gate_result.record[1].passed

\* the mapping candidate without reasoning was vetoed as a complex decision
C18_Witness ==
  /\ gate_args # <<>>
  /\ LatestOutput = DictOut({"decision", "amount"})
  /\ IsTrue(LatestContext, "is_complex_decision")
  /\ CheckFailed("transparency")
  /\ gate_result.outcome = "raised"

\* a mapping whose uncertainty_level, if present, is a number
NumericUncertainty(context) ==
  context.ismap /\ context.kv["uncertainty_level"].t \in {"absent", "num", "bool"}
\* the context without its uncertainty_level and auto_escalate keys
WithoutEscalationKeys(context) ==
  [context EXCEPT !.kv = [k \in CtxKeys |->
     IF k \in {"uncertainty_level", "auto_escalate"} THEN Absent ELSE context.kv[k]]]

C20_EscalationNotBlock ==
  (/\ gate_args # <<>>
   /\ LatestOutput = StrOut(TXT_hedged)
   /\ LatestContext = EscalateContext) =>
    /\ gate_result.outcome = "returned"
    /\ gate_result.record # <<>>
    /\ gate_result.record[1].passed

(* ------------------------- the pipeline's effects ---------------------- *)
\* the step in which call c runs from its wake-up to its return or raise
Resumes(c) == calls[c].pc = "drs" /\ calls'[c].pc = "done" /\ calls'[c].outcome # "cancelled"
\* the call ended in a fault of the given stage
FaultedIn(call, stage) == call.error # <<>> /\ call.error[1].stage = stage
\* context.apply_dp is truthy
WantsNoise(context) == Truthy(Get(context, "apply_dp", PyBool(FALSE)))
\* context.sensitivity, 1.0 when absent
SensitivityOf(context) == Get(context, "sensitivity", PyNum(10))

\* C22: the privacy budget is updated exactly once per noise-consuming call: a
\* process call with apply_dp true that reaches the noise stage with a numeric
\* sensitivity (1.0 when absent) raises privacy_budget_spent by exactly
\* sensitivity / epsilon and appends exactly one privacy-log entry, also when
\* the budget goes above 1.0; every other step leaves both unchanged.
C22_BudgetOncePerCall ==
  [][\A c \in Slots :
       IF /\ Resumes(c)
          /\ WantsNoise(calls[c].context)
          /\ SensitivityOf(calls[c].context).t = "num"
          /\ ~FaultedIn(calls'[c], "bias")
       THEN /\ privacy_budget_spent' =
                 FracAdd(privacy_budget_spent,
                         Frac(SensitivityOf(calls[c].context).v, 10))
            /\ Len(privacy_log') = Len(privacy_log) + 1
            /\ IsPrefix(privacy_log, privacy_log')
            /\ Last(privacy_log').epsilon_cost =
                 Frac(SensitivityOf(calls[c].context).v, 10)
            /\ Last(privacy_log').total_spent = privacy_budget_spent'
            /\ ~FaultedIn(calls'[c], "noise")
       ELSE (last_op'.slot = c \/ last_op'.slot \notin Slots) =>
              /\ privacy_budget_spent' = privacy_budget_spent
              /\ privacy_log' = privacy_log]_vars

\* a noised call without a sensitivity returned after taking the budget above 1.0
C22_Witness ==
  /\ last_op.name = "process"
  /\ last_op.slot \in Slots
  /\ calls[last_op.slot].outcome = "returned"
  /\ FracGT(privacy_budget_spent, One)
  /\ Len(privacy_log) = 2
  /\ Last(privacy_log).sensitivity = PyNum(10)
  /\ Last(privacy_log).total_spent = privacy_budget_spent

\* what SynergyEngine.__init__ creates after the base class is done
OrchestratorAttributes ==
  {"charter_layer", "bias_detector", "privacy_module", "explainability",
   "active_tasks", "system_state"}
\* name, version and governance_level are acceptable
RequiredFieldsValid(config) ==
  /\ config.name # ""
  /\ config.version # ""
  /\ config.governance_level \in {"standard", "strict", "unrestricted"}

PassedFor(t) == {c \in Slots : calls[c].outcome = "returned" /\ calls[c].task_id = t}
\* the one among them that finished last
LatestPassedFor(t) ==
  CHOOSE c \in PassedFor(t) :
    \A b \in PassedFor(t) : calls[b].value[1].timestamp <= calls[c].value[1].timestamp

\* C24: the task map is last-write-wins and never expires entries: it holds,
\* for each task_id with a passing call, the package of the most recent
\* passing call with that task_id and nothing else; a failing call with the
\* same task_id leaves the stored package in place; no step removes an entry.
C24_TaskMapLastWriteWins ==
  /\ [](/\ DOMAIN active_tasks = {calls[c].task_id : c \in {b \in Slots : calls[b].outcome = "returned"}}
        /\ \A t \in DOMAIN active_tasks :
              active_tasks[t] = calls[LatestPassedFor(t)].value[1])
  /\ [][/\ DOMAIN active_tasks \subseteq DOMAIN active_tasks'
        /\ \A c \in Slots :
              /\ (Resumes(c) /\ calls'[c].outcome = "returned") =>
                    active_tasks'[calls[c].task_id] = calls'[c].value[1]
              /\ (last_op'.slot = c /\ calls'[c].outcome # "returned") =>
                    active_tasks' = active_tasks
        /\ last_op'.slot \notin Slots => active_tasks' = active_tasks]_vars

\* a call for a task_id was vetoed after another call had stored a package
\* under that task_id, and the package is still there
C24_Witness ==
  /\ last_op.name = "process"
  /\ last_op.slot \in Slots
  /\ calls[last_op.slot].outcome = "veto"
  /\ \E c \in Slots :
        /\ calls[c].outcome = "returned"
        /\ calls[c].task_id = calls[last_op.slot].task_id
        /\ active_tasks[calls[c].task_id] = calls[c].value[1]

\* failed records / total records of the Gate history (0 for an empty one)
FailureRate(log) == IF Len(log) = 0 THEN Zero ELSE Frac(FailedCount(log), Len(log))

\* C25: the alignment state is kept current by process itself: right after
\* every completed process call, returned or vetoed, alignment_score equals
\* 1 - (failed records / total records) of the Gate history and
\* ethical_drift_detected equals (that rate > 0.1), with no call of
\* detect_alignment_drift needed.
C25_AlignmentKeptCurrent ==
  (/\ last_op.name = "process"
   /\ last_op.slot \in Slots
   /\ calls[last_op.slot].outcome \in {"returned", "veto"}) =>
    /\ system_state.alignment_score = FracSub(One, FailureRate(verification_log))
    /\ system_state.ethical_drift_detected
          = FracGT(FailureRate(verification_log), <<1, 10>>)

\* the stages of process() in the documented order, for a call with or without noise
StageOrder(noisy) ==
  IF noisy
  THEN <<"sanitize", "score", "bias", "noise", "explain", "verify", "store">>
  ELSE <<"sanitize", "score", "bias", "explain", "verify", "store">>
StageNames(stages) == [i \in 1..Len(stages) |-> stages[i].stage]
\* what the stage named so was handed, if the call ran it
RunOf(stages, name) == SelectSeq(stages, LAMBDA r : r.stage = name)

Ran(c, name) == \E i \in 1..Len(calls[c].stages) : calls[c].stages[i].stage = name
\* call c has left process() through its return or one of its except clauses
Ended(c) == calls[c].outcome \in {"returned", "veto", "error"}
\* the audit entries of the sanitize stage for task t
SanitizedEntries(t) ==
  {i \in 1..Len(audit_log) :
     audit_log[i].event = "Input sanitized for task" /\ audit_log[i].task = <<t>>}

\* C27: however concurrent process calls interleave, no update is lost: the
\* Gate history has exactly one record per call that reached the Gate (and per
\* direct Gate call), the audit log holds every entry each call emitted, and
\* the task map holds an entry for every task_id whose call passed the Gate.
C27_NoLostUpdate ==
  /\ Len(verification_log)
       = direct_calls + Cardinality({c \in Slots : Ran(c, "verify")})
  /\ Len(audit_log)
       = 2 + Cardinality({c \in Slots : Ran(c, "sanitize")})
           + Cardinality({c \in Slots : Ended(c)})
  /\ \A c \in Slots : Ran(c, "sanitize") =>
        Cardinality(SanitizedEntries(calls[c].task_id))
          = Cardinality({b \in Slots : Ran(b, "sanitize")
                                       /\ calls[b].task_id = calls[c].task_id})
  /\ Cardinality({i \in 1..Len(audit_log) :
                    audit_log[i].event = "Output passed CharterLayer verification"})
       = Cardinality({c \in Slots : calls[c].outcome = "returned"})
  /\ Cardinality({i \in 1..Len(audit_log) :
                    audit_log[i].event = "Output blocked by CharterLayer"})
       = Cardinality({c \in Slots : calls[c].outcome = "veto"})
  /\ \A c \in Slots : calls[c].outcome = "returned" =>
        calls[c].task_id \in DOMAIN active_tasks
  /\ Len(explanation_log) = Cardinality({c \in Slots : Ran(c, "verify")})

\* two calls overlapped (both were past the sanitize stage before either
\* reached the Gate), both have finished, and both left their records
C27_Witness ==
  /\ \A c \in Slots : calls[c].pc = "done" /\ Ran(c, "verify")
  /\ Len(audit_log) >= 4
  /\ audit_log[3].event = "Input sanitized for task"
  /\ audit_log[4].event = "Input sanitized for task"
  /\ \E c \in Slots : calls[c].outcome = "returned"
  /\ \E c \in Slots : calls[c].outcome = "veto"

\* the suspended call c is cancelled in this step
Cancels(c) == calls[c].pc = "drs" /\ calls'[c].outcome = "cancelled"
\* the calls that returned a package
ReturnedCalls == {c \in Slots : calls[c].outcome = "returned"}

\* C28: process is atomic-or-failed on the task map and SystemState: the step
\* that cancels a suspended call leaves the task map and SystemState as they
\* were, every entry of the task map is the package of a call that returned,
\* last_synthesis is the time of the latest returned call (unset when none
\* returned), and the task map and last_synthesis change in the same step or
\* not at all, so nothing observes one write without the other.
C28_AtomicOrFailed ==
  /\ [](/\ \A t \in DOMAIN active_tasks :
              \E c \in ReturnedCalls : /\ calls[c].task_id = t
                                        /\ active_tasks[t] = calls[c].value[1]
        /\ system_state.last_synthesis =
              IF ReturnedCalls = {} THEN <<>>
              ELSE <<calls[CHOOSE c \in ReturnedCalls :
                             \A b \in ReturnedCalls :
                                calls[b].value[1].timestamp <= calls[c].value[1].timestamp
                          ].value[1].timestamp>>)
  /\ [][/\ \A c \in Slots : Cancels(c) =>
              /\ active_tasks' = active_tasks
              /\ system_state' = system_state
        /\ (active_tasks' # active_tasks)
              <=> (system_state'.last_synthesis # system_state.last_synthesis)]_vars

\* a call was cancelled at its suspension point while another call's package
\* was in the task map, and the cancelled call's task_id has no entry
C28_Witness ==
  /\ last_op.name = "cancel"
  /\ \E c \in Slots :
        /\ calls[c].outcome = "cancelled"
        /\ calls[c].task_id \notin DOMAIN active_tasks
        /\ \E b \in ReturnedCalls : system_state.last_synthesis = <<calls[b].value[1].timestamp>>

\* the latest operation is a process call that handed its package to the Gate
GateReachedByLatest ==
  /\ last_op.name = "process"
  /\ last_op.slot \in Slots
  /\ calls[last_op.slot].pc = "done"
  /\ Ran(last_op.slot, "verify")
\* user_id and requires_consent truthy, consent_given falsy or absent
ConsentMissing(context) ==
  /\ Truthy(Get(context, "user_id", PyNone))
  /\ Truthy(Get(context, "requires_consent", PyNone))
  /\ ~Truthy(Get(context, "consent_given", PyBool(FALSE)))

\* C29: the candidate process hands to the Gate is a mapping with the keys
\* 'explanation' and 'confidence', so the NO_DECEPTION, FAIRNESS, TRANSPARENCY
\* and SAFETY checks never return False on it, also under
\* is_complex_decision; for a well-typed context the four checks pass and a
\* call whose collaborators all succeeded is vetoed exactly when the context
\* has a truthy user_id, a truthy requires_consent and a falsy or absent
\* consent_given.
C29_OnlyDignityVetoesInProcess ==
  GateReachedByLatest =>
    /\ LatestOutput.kind = "dict"
    /\ {"explanation", "confidence"} \subseteq LatestOutput.names
    /\ \A p \in {"no_deception", "fairness", "transparency", "safety"} : ~CheckFailed(p)
    /\ NumericUncertainty(LatestContext) =>
          /\ \A p \in {"no_deception", "fairness", "transparency", "safety"} : CheckPassed(p)
          /\ (calls[last_op.slot].outcome = "veto") <=> ConsentMissing(LatestContext)
          /\ (calls[last_op.slot].outcome = "returned") <=> ~ConsentMissing(LatestContext)

\* a call under is_complex_decision and high uncertainty, with user_id and
\* requires_consent set and consent given, passed the Gate
C29_Witness ==
  /\ GateReachedByLatest
  /\ IsTrue(LatestContext, "is_complex_decision")
  /\ LatestContext.kv["uncertainty_level"] = PyNum(9)
  /\ Truthy(LatestContext.kv["user_id"])
  /\ IsTrue(LatestContext, "requires_consent")
  /\ IsTrue(LatestContext, "consent_given")
  /\ calls[last_op.slot].outcome = "returned"

\* call c ends in a Gate veto in this step
Vetoed(c) == Resumes(c) /\ calls'[c].outcome = "veto"

\* C30: a vetoed process call does not roll back what its earlier stages did:
\* in the step that ends in the veto the explanation counter grows by one, the
\* bias-metric list is extended by the metrics computed for the task, the
\* privacy budget is charged and one privacy-log entry added when apply_dp
\* was true (and neither touched otherwise), and the Gate history gains the
\* failed record, while the task map and SystemState stay as they were.
C30_VetoKeepsStageEffects ==
  [][\A c \in Slots : Vetoed(c) =>
       /\ explanations_generated' = explanations_generated + 1
       /\ Len(explanation_log') = Len(explanation_log) + 1
       /\ IsPrefix(explanation_log, explanation_log')
       /\ bias_metrics' =
            bias_metrics \o analyze_output([scored |-> FALSE,
                                            score |-> RunOf(calls'[c].stages, "bias")[1].score],
                                           Get(calls[c].context, "demographics", PyDict({})),
                                           clock)
       /\ IF WantsNoise(calls[c].context)
          THEN /\ privacy_budget_spent' =
                    FracAdd(privacy_budget_spent,
                            Frac(SensitivityOf(calls[c].context).v, 10))
               /\ Len(privacy_log') = Len(privacy_log) + 1
               /\ IsPrefix(privacy_log, privacy_log')
          ELSE /\ privacy_budget_spent' = privacy_budget_spent
               /\ privacy_log' = privacy_log
       /\ Len(verification_log') = Len(verification_log) + 1
       /\ IsPrefix(verification_log, verification_log')
       /\ ~Last(verification_log').passed
       /\ active_tasks' = active_tasks
       /\ system_state' = system_state]_vars

\* a call with apply_dp and demographics was vetoed after an earlier call had
\* returned: its metric, its explanation, its budget charge and its failed
\* record are all there, and the task map still holds the earlier package only
C30_Witness ==
  /\ last_op.name = "process"
  /\ last_op.slot \in Slots
  /\ calls[last_op.slot].outcome = "veto"
  /\ Ran(last_op.slot, "noise")
  /\ Len(privacy_log) >= 1
  /\ Len(bias_metrics) >= 1
  /\ Last(bias_metrics).protected_attribute = "race"
  /\ explanations_generated = 2
  /\ ~Last(verification_log).passed
  /\ Cardinality(DOMAIN active_tasks) = 1
  /\ system_state.last_synthesis # <<>>

====
